---- MODULE Spec2Model ----
(***************************************************************************)
(* Xpostv2 (src/index.tsx): the App component's settings draft / commit /  *)
(* reset lifecycle, the post generation handler and the bounded history,   *)
(* as a state machine over the component's React state and localStorage.   *)
(*                                                                         *)
(* Every handler is one action.  React re-renders between two events, so   *)
(* a handler reads the state left by the previous one; the only values     *)
(* that outlive an event are those captured by handleGeneratePost across   *)
(* its await (variable pending).                                           *)
(*                                                                         *)
(* Strings that are only compared for equality are TLA+ strings.  The      *)
(* "HH:MM" values of the time input are sequences of UTF-16 code units,    *)
(* because Array.prototype.sort() orders them by code unit.  A value that  *)
(* may be null is a sequence of length 0 (null) or 1.                      *)
(***************************************************************************)
EXTENDS Integers, Sequences, FiniteSets, TLC

VARIABLES
    savedSettings,   \* useLocalStorage('x-post-app-settings') state: the committed settings
    settings,        \* useState(savedSettings): the draft
    sourceInput,     \* text of the source URL input
    timeInput,       \* value of the time input
    generatedPost,   \* null or {text, source}
    history,         \* useLocalStorage('x-post-history') state, newest first
    isLoading,       \* in-progress indicator
    error,           \* null or the displayed message
    pending,         \* what each suspended handleGeneratePost captured, oldest first
    storage,         \* window.localStorage: key -> null or the stored JSON text
    storageFails,    \* localStorage.setItem throws in this session
    now,             \* the clock new Date() reads, in seconds
    created,         \* every history item built since construction, newest first
    lastOp,          \* the last settings operation invoked, with its argument
    prevOp           \* the settings operation invoked before lastOp

vars == <<savedSettings, settings, sourceInput, timeInput, generatedPost, history,
          isLoading, error, pending, storage, storageFails, now, created,
          lastOp, prevOp>>

draftVars == <<settings, sourceInput, timeInput>>
generatorVars == <<generatedPost, history, isLoading, error, pending, now, created>>

(***************************************************************************)
(* Bounds of the model.                                                    *)
(***************************************************************************)
MaxUrls == 2          \* distinct URLs the user types
MaxTimes == 2         \* distinct times the user picks
MaxRuns == 2          \* generation runs started in Spec
MaxClock == 1         \* seconds the clock advances
MaxLedgerRuns == 52   \* generation runs that build an item in SpecLedger

(***************************************************************************)
(* Values.                                                                 *)
(***************************************************************************)
None == <<>>
Some(x) == <<x>>

\* the value of <input type="time">: zero-padded 24h "HH:MM" as code units
HHMM(h, m) == <<48 + (h \div 10), 48 + (h % 10), 58, 48 + (m \div 10), 48 + (m % 10)>>

UrlChoices == <<"https://a.example/feed", "https://b.example/feed",
                "https://c.example/feed", "https://d.example/feed">>
Urls == {UrlChoices[i] : i \in 1..MaxUrls}
SourceInputs == Urls \cup {""}

TimeChoices == <<HHMM(8, 30), HHMM(12, 0), HHMM(9, 0), HHMM(23, 15)>>
TimeInputs == {TimeChoices[i] : i \in 1..MaxTimes} \cup {<<>>}

DefaultPersona == "technology expert"
Personas == {DefaultPersona, "friendly marketer"}
Credentials == {"", "secret"}
DefaultPostsPerDay == 10
\* Number(e.target.value) of the number input: min/max do not limit typing
PostsPerDayInputs == {0, DefaultPostsPerDay, 51}

initialSettings ==
    [persona |-> DefaultPersona,
     sources |-> <<>>,
     scheduleTimes |-> <<HHMM(9, 0)>>,
     postsPerDay |-> DefaultPostsPerDay,
     xApiKey |-> "",
     xApiSecretKey |-> "",
     xAccessToken |-> "",
     xAccessTokenSecret |-> ""]

SettingsKey == "x-post-app-settings"
HistoryKey == "x-post-history"

\* the values each onChange handler of the settings view passes on
FieldInputs ==
    [persona |-> Personas,
     postsPerDay |-> PostsPerDayInputs,
     xApiKey |-> {""},
     xApiSecretKey |-> {""},
     xAccessToken |-> {""},
     xAccessTokenSecret |-> Credentials]

(***************************************************************************)
(* Array and JSON helpers.                                                 *)
(***************************************************************************)
Range(arr) == {arr[i] : i \in 1..Len(arr)}

NoDuplicates(arr) == \A i, j \in 1..Len(arr) : arr[i] = arr[j] => i = j

\* includes that finds nothing
includesNever(arr, x) == FALSE

\* Array.prototype.includes
includes(arr, x) == \E i \in 1..Len(arr) : arr[i] = x

\* filter that counts the index from 1
filterIndexOneBased(arr, index) ==
    IF index \in 1..Len(arr)
    THEN SubSeq(arr, 1, index - 1) \o SubSeq(arr, index + 1, Len(arr))
    ELSE arr

\* arr.filter((_, i) => i !== index), index counted from 0
RECURSIVE filterIndex(_, _)
filterIndex(arr, index) ==
    IF arr = <<>> THEN <<>>
    ELSE IF index = 0 THEN Tail(arr)
    ELSE <<Head(arr)>> \o filterIndex(Tail(arr), index - 1)

\* the order of the default sort: strings compared by code unit
RECURSIVE StringLess(_, _)
StringLess(a, b) ==
    IF b = <<>> THEN FALSE
    ELSE IF a = <<>> THEN TRUE
    ELSE IF Head(a) # Head(b) THEN Head(a) < Head(b)
    ELSE StringLess(Tail(a), Tail(b))

RECURSIVE insertSorted(_, _)
insertSorted(arr, x) ==
    IF arr = <<>> THEN <<x>>
    ELSE IF StringLess(x, Head(arr)) THEN <<x>> \o arr
    ELSE <<Head(arr)>> \o insertSorted(Tail(arr), x)

\* the list left as it is
sortNothing(arr) == arr

\* Array.prototype.sort() without a comparator (stable)
RECURSIVE sort(_)
sort(arr) ==
    IF arr = <<>> THEN <<>>
    ELSE insertSorted(sort(SubSeq(arr, 1, Len(arr) - 1)), arr[Len(arr)])

\* no truncation
sliceNothing(arr, end) == arr

\* arr.slice(0, end)
slice(arr, end) == SubSeq(arr, 1, IF Len(arr) < end THEN Len(arr) ELSE end)

\* a serialisation that leaves the credentials out
JSONStringifyWithoutSecrets(s) ==
    << <<"persona", s.persona>>, <<"sources", s.sources>>,
       <<"scheduleTimes", s.scheduleTimes>>, <<"postsPerDay", s.postsPerDay>> >>

\* JSON.stringify of a settings object: the members in the object's key order
JSONStringify(s) ==
    << <<"persona", s.persona>>, <<"sources", s.sources>>,
       <<"scheduleTimes", s.scheduleTimes>>, <<"postsPerDay", s.postsPerDay>>,
       <<"xApiKey", s.xApiKey>>, <<"xApiSecretKey", s.xApiSecretKey>>,
       <<"xAccessToken", s.xAccessToken>>,
       <<"xAccessTokenSecret", s.xAccessTokenSecret>> >>

\* JSON.parse of a stored settings object
JSONParse(text) ==
    [persona |-> text[1][2], sources |-> text[2][2], scheduleTimes |-> text[3][2],
     postsPerDay |-> text[4][2], xApiKey |-> text[5][2], xApiSecretKey |-> text[6][2],
     xAccessToken |-> text[7][2], xAccessTokenSecret |-> text[8][2]]

\* JSON.stringify and JSON.parse of the history array
JSONStringifyHistory(arr) ==
    [i \in 1..Len(arr) |->
        << <<"text", arr[i].text>>, <<"source", arr[i].source>>, <<"date", arr[i].date>> >>]

JSONParseHistory(text) ==
    [i \in 1..Len(text) |->
        [text |-> text[i][1][2], source |-> text[i][2][2], date |-> text[i][3][2]]]

\* a stored text that is not JSON: JSON.parse throws a SyntaxError on it
Garbage == << <<"{">> >>
parseThrows(text) == text = Garbage

(***************************************************************************)
(* useLocalStorage.  The useState initialiser reads the key once: the      *)
(* stored text parsed, initialValue when nothing is stored or when the     *)
(* read throws.  setValue sets the state first, then calls setItem, whose  *)
(* exception is caught and logged.                                         *)
(***************************************************************************)
storedValue(stored, key, initialValue) ==
    IF stored[key] = None THEN initialValue
    ELSE IF parseThrows(stored[key][1]) THEN initialValue
    ELSE IF key = SettingsKey THEN JSONParse(stored[key][1])
    ELSE JSONParseHistory(stored[key][1])

setItem(key, text) ==
    IF storageFails THEN storage' = storage
    ELSE storage' = [storage EXCEPT ![key] = Some(text)]

\* a write fault of setValue that reaches the caller's catch
errorAfterSetValueUncaught ==
    IF storageFails THEN Some("setItem failed") ELSE error

\* setValue catches its write fault: the caller's error state is not touched
errorAfterSetValue == error

areSettingsDirty == JSONStringify(settings) # JSONStringify(savedSettings)

\* the trail of settings operations: kept by the specifications whose claims
\* speak of operations in succession, left alone by the others
Note(name, arg) ==
    /\ prevOp' = lastOp
    /\ lastOp' = <<name, arg>>

Untraced == UNCHANGED <<lastOp, prevOp>>

(***************************************************************************)
(* Settings view handlers.                                                 *)
(***************************************************************************)
handleSettingsChange(field, value) ==
    settings' = [settings EXCEPT ![field] = value]

\* onChange of the persona, credential and postsPerDay inputs
EditField(field, value) ==
    /\ handleSettingsChange(field, value)
    /\ UNCHANGED <<savedSettings, sourceInput, timeInput, storage, storageFails>>
    /\ UNCHANGED generatorVars

setSourceInput(value) ==
    /\ sourceInput' = value
    /\ UNCHANGED <<savedSettings, settings, timeInput, storage, storageFails>>
    /\ UNCHANGED generatorVars

setTimeInput(value) ==
    /\ timeInput' = value
    /\ UNCHANGED <<savedSettings, settings, sourceInput, storage, storageFails>>
    /\ UNCHANGED generatorVars

addSource ==
    /\ IF sourceInput # "" /\ ~includes(settings.sources, sourceInput)
       THEN /\ handleSettingsChange("sources", settings.sources \o <<sourceInput>>)
            /\ sourceInput' = ""
       ELSE UNCHANGED <<settings, sourceInput>>
    /\ UNCHANGED <<savedSettings, timeInput, storage, storageFails>>
    /\ UNCHANGED generatorVars

removeSource(index) ==
    /\ handleSettingsChange("sources", filterIndex(settings.sources, index))
    /\ UNCHANGED <<savedSettings, sourceInput, timeInput, storage, storageFails>>
    /\ UNCHANGED generatorVars

addScheduleTime ==
    /\ IF timeInput # <<>> /\ ~includes(settings.scheduleTimes, timeInput)
       THEN /\ handleSettingsChange("scheduleTimes",
                                    sort(settings.scheduleTimes \o <<timeInput>>))
            /\ timeInput' = <<>>
       ELSE UNCHANGED <<settings, timeInput>>
    /\ UNCHANGED <<savedSettings, sourceInput, storage, storageFails>>
    /\ UNCHANGED generatorVars

removeScheduleTime(index) ==
    /\ handleSettingsChange("scheduleTimes", filterIndex(settings.scheduleTimes, index))
    /\ UNCHANGED <<savedSettings, sourceInput, timeInput, storage, storageFails>>
    /\ UNCHANGED generatorVars

\* a commit that sets the state only after setItem succeeded
handleSaveSettingsAfterWrite ==
    /\ IF storageFails THEN UNCHANGED <<savedSettings, storage>>
       ELSE /\ savedSettings' = settings
            /\ storage' = [storage EXCEPT ![SettingsKey] = Some(JSONStringify(settings))]
    /\ UNCHANGED <<settings, sourceInput, timeInput, storageFails>>
    /\ UNCHANGED generatorVars

handleSaveSettings ==
    /\ savedSettings' = settings
    /\ setItem(SettingsKey, JSONStringify(settings))
    /\ UNCHANGED <<settings, sourceInput, timeInput, storageFails>>
    /\ UNCHANGED generatorVars

\* a reset to the defaults instead of the committed settings
handleResetSettingsToDefaults ==
    /\ settings' = initialSettings
    /\ UNCHANGED <<savedSettings, sourceInput, timeInput, storage, storageFails>>
    /\ UNCHANGED generatorVars

handleResetSettings ==
    /\ settings' = savedSettings
    /\ UNCHANGED <<savedSettings, sourceInput, timeInput, storage, storageFails>>
    /\ UNCHANGED generatorVars

(***************************************************************************)
(* Generator view: handleGeneratePost.  The handler runs up to its await   *)
(* in one step and resumes in a second one with the API's answer; between  *)
(* the two it holds what its closure captured at the call: savedSettings,  *)
(* history and the source it drew.                                         *)
(***************************************************************************)
HistoryLimit == 50

NoSourcesMessage == "Please register at least one source URL."
EmptyResponseMessage == "No valid response from the AI."
GenericErrorMessage == "An error occurred while generating the post. Check the API key or the prompt."

\* what response.text can be: undefined, "" or a text
Texts == {"Hello", "Breaking news"}
ResponseTexts == {None, Some("")} \cup {Some(t) : t \in Texts}
\* what the SDK can throw: never shown to the user
RawErrors == {"TypeError: Failed to fetch", "ApiError: API key not valid"}

\* a test for undefined only
truthyDefined(text) == text # None

\* if (text)
truthy(text) == text # None /\ text[1] # ""

\* the draft's sources tested instead of the committed ones
noSourcesInDraft == Len(settings.sources) = 0

\* savedSettings.sources.length === 0
noSources == Len(savedSettings.sources) = 0

\* what indexing an empty array yields
Undefined == "undefined"

\* the source drawn from the draft
randomSourceChoicesFromDraft ==
    IF settings.sources = <<>> THEN {Undefined} ELSE Range(settings.sources)

\* savedSettings.sources[Math.floor(Math.random() * savedSettings.sources.length)]:
\* any element, and undefined (index 0) of an empty array
randomSourceChoices ==
    IF savedSettings.sources = <<>> THEN {Undefined} ELSE Range(savedSettings.sources)

\* the new item put last
prependAtEnd(item, arr) == arr \o <<item>>

\* [newHistoryItem, ...history]
prepend(item, arr) == <<item>> \o arr

\* new Date().toLocaleString('ja-JP'): the clock's reading to the second
toLocaleString(t) == t

\* the clock advances
Tick ==
    /\ now < MaxClock
    /\ now' = now + 1
    /\ UNCHANGED <<savedSettings, storage, storageFails, generatedPost, history,
                   isLoading, error, pending, created>>
    /\ UNCHANGED draftVars

\* a trigger that stays enabled during a run
disabledNever == FALSE

\* the generate button cannot be clicked while isLoading (line 327); that it is
\* also disabled without committed sources is not taken as a guard: the
\* handler tests for them itself (line 114) and that branch is modelled
disabledWhileLoading == isLoading

handleGeneratePost(maxRuns) ==
    /\ ~disabledWhileLoading
    /\ Len(created) < maxRuns
    /\ IF noSources
       THEN /\ error' = Some(NoSourcesMessage)
            /\ UNCHANGED <<isLoading, generatedPost, pending>>
       ELSE /\ error' = None
            /\ isLoading' = TRUE
            /\ generatedPost' = None
            /\ \E randomSource \in randomSourceChoices :
                   pending' = Append(pending, [savedSettings |-> savedSettings,
                                                history |-> history,
                                                randomSource |-> randomSource])
    /\ UNCHANGED <<savedSettings, storage, storageFails, history, now, created>>
    /\ UNCHANGED draftVars

\* generateContent resolved: response.text is text.  The handler resumes with
\* what it captured at the call
ApiReturns(text) ==
    /\ pending # None
    /\ IF truthy(text)
       THEN LET newPost == [text |-> text[1], source |-> pending[1].randomSource]
                newHistoryItem == [text |-> newPost.text, source |-> newPost.source,
                                   date |-> toLocaleString(now)]
                valueToStore == slice(prepend(newHistoryItem, pending[1].history),
                                      HistoryLimit)
            IN  /\ generatedPost' = Some(newPost)
                /\ history' = valueToStore
                /\ setItem(HistoryKey, JSONStringifyHistory(valueToStore))
                /\ created' = <<newHistoryItem>> \o created
                /\ error' = errorAfterSetValue
       ELSE /\ error' = Some(EmptyResponseMessage)
            /\ UNCHANGED <<generatedPost, history, storage, created>>
    /\ isLoading' = FALSE
    /\ pending' = Tail(pending)
    /\ UNCHANGED <<savedSettings, storageFails, now>>
    /\ UNCHANGED draftVars

\* a catch without the finally: the indicator stays
ApiThrowsNoFinally(err) ==
    /\ pending # None
    /\ error' = Some(GenericErrorMessage)
    /\ pending' = Tail(pending)
    /\ UNCHANGED <<savedSettings, storage, storageFails, generatedPost, history,
                   isLoading, now, created>>
    /\ UNCHANGED draftVars

\* the SDK constructor or generateContent threw err
ApiThrows(err) ==
    /\ pending # None
    /\ error' = Some(GenericErrorMessage)
    /\ isLoading' = FALSE
    /\ pending' = Tail(pending)
    /\ UNCHANGED <<savedSettings, storage, storageFails, generatedPost, history,
                   now, created>>
    /\ UNCHANGED draftVars

(***************************************************************************)
(* Construction.  useLocalStorage reads its key once: the stored value     *)
(* parsed, or initialValue when nothing is stored or the stored text does  *)
(* not parse.  The draft starts as the committed settings.                 *)
(***************************************************************************)
FirstLoad == [k \in {SettingsKey, HistoryKey} |-> None]

\* what an earlier session leaves behind: one committed source
CommittedSettings == [initialSettings EXCEPT !.sources = <<UrlChoices[1]>>]

\* ... and, after HistoryLimit - 1 successful runs, their items, newest first
StoredHistory ==
    [i \in 1..(HistoryLimit - 1) |->
        [text |-> "Hello", source |-> UrlChoices[1], date |-> 0 - i]]

AfterSettingsSaved ==
    [k \in {SettingsKey, HistoryKey} |->
        IF k = SettingsKey THEN Some(JSONStringify(CommittedSettings)) ELSE None]

AfterManyRuns ==
    [k \in {SettingsKey, HistoryKey} |->
        IF k = SettingsKey THEN Some(JSONStringify(CommittedSettings))
        ELSE Some(JSONStringifyHistory(StoredHistory))]

InitFrom(stored) ==
    /\ storage = stored
    /\ savedSettings = storedValue(stored, SettingsKey, initialSettings)
    /\ settings = savedSettings
    /\ sourceInput = ""
    /\ timeInput = HHMM(12, 0)
    /\ generatedPost = None
    /\ history = storedValue(stored, HistoryKey, <<>>)
    /\ isLoading = FALSE
    /\ error = None
    /\ pending = None
    /\ storageFails \in BOOLEAN
    /\ now = 0
    /\ created = <<>>
    /\ lastOp = <<"init", "">>
    /\ prevOp = <<"init", "">>

\* the first load, or a later one
Init == \E stored \in {FirstLoad, AfterManyRuns} : InitFrom(stored)

InitFirstLoad == InitFrom(FirstLoad)

InitLedger == InitFrom(AfterSettingsSaved)

\* what a damaged store holds: texts that do not parse
Corrupted == [k \in {SettingsKey, HistoryKey} |-> Some(Garbage)]

InitSession == \E stored \in {FirstLoad, Corrupted} : InitFrom(stored)

RemoveIndices == -1 .. MaxUrls

(***************************************************************************)
(* Spec: the generator together with the draft's source list, its commit   *)
(* and its discard, so that the draft and the committed sources differ.    *)
(* It starts at the first load or with the history an earlier session left *)
(* one item short of HistoryLimit.                                         *)
(***************************************************************************)
Next ==
    \/ \E v \in SourceInputs : setSourceInput(v) /\ Untraced
    \/ addSource /\ Untraced
    \/ handleSaveSettings /\ Untraced
    \/ handleResetSettings /\ Untraced
    \/ handleGeneratePost(MaxRuns) /\ Untraced
    \/ \E text \in ResponseTexts : ApiReturns(text) /\ Untraced
    \/ \E err \in RawErrors : ApiThrows(err) /\ Untraced

Spec == Init /\ [][Next]_vars

\* the awaited call settles: generateContent returns or throws
callSettles ==
    /\ \/ \E text \in ResponseTexts : ApiReturns(text)
       \/ \E err \in RawErrors : ApiThrows(err)
    /\ Untraced

\* Spec with every outstanding call settling eventually
SpecFair == Spec /\ WF_vars(callSettles)

(***************************************************************************)
(* SpecLists: the source and schedule-time lists of the draft under any    *)
(* sequence of add and remove calls, from the default settings.            *)
(***************************************************************************)
NextLists ==
    \/ \E v \in SourceInputs : setSourceInput(v) /\ Untraced
    \/ addSource /\ Note("addSource", sourceInput)
    \/ \E i \in RemoveIndices : removeSource(i) /\ Note("removeSource", "")
    \/ \E v \in TimeInputs : setTimeInput(v) /\ Untraced
    \/ addScheduleTime /\ Note("addScheduleTime", "")
    \/ \E i \in RemoveIndices : removeScheduleTime(i) /\ Note("removeScheduleTime", "")

SpecLists == InitFirstLoad /\ [][NextLists]_vars

(***************************************************************************)
(* SpecDraft: the Draft Controller's dirty state: field edits, commit and  *)
(* discard, with one source URL added and removed so that a list field is  *)
(* edited too.  The generator writes no variable these handlers read.      *)
(***************************************************************************)
NextDraft ==
    \/ \E f \in DOMAIN FieldInputs : \E v \in FieldInputs[f] :
           EditField(f, v) /\ Note("edit", "")
    \/ \E v \in {UrlChoices[1], ""} : setSourceInput(v) /\ Untraced
    \/ addSource /\ Note("addSource", sourceInput)
    \/ \E i \in {0, 1} : removeSource(i) /\ Note("removeSource", "")
    \/ handleSaveSettings /\ Note("commit", "")
    \/ handleResetSettings /\ Note("discard", "")

SpecDraft == InitFirstLoad /\ [][NextDraft]_vars

(***************************************************************************)
(* SpecLedger: a long series of generation runs, with a running clock,     *)
(* from an empty history and one committed source.                         *)
(***************************************************************************)
NextLedger ==
    \/ handleGeneratePost(MaxLedgerRuns) /\ Untraced
    \/ ApiReturns(Some("Hello")) /\ Untraced
    \/ ApiReturns(None) /\ Untraced
    \/ \E err \in RawErrors : ApiThrows(err) /\ Untraced
    \/ Tick /\ Untraced

SpecLedger == InitLedger /\ [][NextLedger]_vars

(***************************************************************************)
(* SpecSession: one session over both views: the draft edited (one field,  *)
(* one source URL, the time input's initial value), committed or           *)
(* discarded, and runs started against whatever is committed, from an      *)
(* empty or a damaged store.                                               *)
(***************************************************************************)
NextSession ==
    \/ \E v \in PostsPerDayInputs : EditField("postsPerDay", v) /\ Untraced
    \/ \E v \in {UrlChoices[1], ""} : setSourceInput(v) /\ Untraced
    \/ addSource /\ Untraced
    \/ removeSource(0) /\ Untraced
    \/ addScheduleTime /\ Untraced
    \/ removeScheduleTime(0) /\ Untraced
    \/ handleSaveSettings /\ Untraced
    \/ handleResetSettings /\ Untraced
    \/ handleGeneratePost(MaxRuns) /\ Untraced
    \/ \E text \in {None, Some("Hello")} : ApiReturns(text) /\ Untraced
    \/ \E err \in RawErrors : ApiThrows(err) /\ Untraced

SpecSession == InitSession /\ [][NextSession]_vars

(***************************************************************************)
(* Claims about the generator (Spec) and the history (SpecLedger).         *)
(***************************************************************************)
Min(a, b) == IF a < b THEN a ELSE b

\* C1: the history never holds more than 50 items; it is always the 50 most
\* recently built items (all of them while fewer were built), newest first,
\* and once 50 items were built its length is exactly 50.
C1_HistoryBound ==
    /\ Len(history) <= 50
    /\ Len(history) = Min(Len(created), 50)
    /\ history = SubSeq(created, 1, Len(history))
    /\ \A i \in 1..(Len(history) - 1) : history[i].date >= history[i + 1].date
    /\ Len(created) >= 50 => Len(history) = 50

\* C1 witness: 52 runs succeeded, at different seconds, and 50 items are kept.
C1_Witness ==
    /\ Len(created) = 52
    /\ Len(history) = 50
    /\ history[1].date # history[50].date
    /\ created[52].date = history[50].date

\* C2: a run started with committed sources whose call returns a non-empty
\* text ends with generatedPost holding that text and a source that is one
\* of the sources committed when the run started, with no error and no loading
\* indicator, and with the history being the new item (that text and source,
\* dated now) first, followed by the former items in their order, cut to 50.
C2_SuccessPrependsEntry ==
    [][\A text \in ResponseTexts :
          (ApiReturns(text) /\ text # None /\ text[1] # "")
             => /\ generatedPost' # None
                /\ generatedPost'[1].text = text[1]
                /\ generatedPost'[1].source \in Range(pending[1].savedSettings.sources)
                /\ error' = None
                /\ isLoading' = FALSE
                /\ Len(history') = Min(Len(history) + 1, 50)
                /\ history'[1].text = text[1]
                /\ history'[1].source = generatedPost'[1].source
                /\ history'[1].date = now
                /\ \A j \in 2..Len(history') : history'[j] = history[j - 1]]_vars

\* C2 witness: on top of a stored history one item short of the limit, two
\* runs succeeded while the draft held an uncommitted source: the oldest
\* stored item is gone.
C2_Witness ==
    /\ generatedPost # None
    /\ ~isLoading
    /\ Len(created) = 2
    /\ Len(history) = 50
    /\ history[1].source = generatedPost[1].source
    /\ history[1].text # history[2].text
    /\ history[50] = StoredHistory[48]
    /\ Len(settings.sources) > Len(savedSettings.sources)

\* C3: handleGeneratePost called while the committed sources are empty shows
\* the no-sources message, starts no call and no loading, and leaves the
\* history and its stored copy as they were, whatever the draft's sources
\* are; and no run is ever in progress that started with empty committed sources.
C3_NoSourcesFails ==
    [][/\ (handleGeneratePost(MaxRuns) /\ savedSettings.sources = <<>>)
             => /\ error' = Some(NoSourcesMessage)
                /\ isLoading' = FALSE
                /\ pending' = None
                /\ history' = history
                /\ storage' = storage
                /\ created' = created
       /\ isLoading' => /\ pending' # None
                        /\ pending'[1].savedSettings.sources # <<>>]_vars

\* C3 witness: the no-sources message is shown while the draft holds a source
\* that was never committed.
C3_Witness ==
    /\ error = Some(NoSourcesMessage)
    /\ savedSettings.sources = <<>>
    /\ settings.sources # <<>>
    /\ ~isLoading
    /\ history = <<>>

\* C4: a run whose call throws ends with the generic message, a run whose call
\* returns an empty or no text ends with the empty-response message, and both
\* leave the history and its stored copy as they were; the raw error is never
\* shown; the history changes only in a step in which a call returned a
\* non-empty text.
C4_FailureKeepsHistory ==
    [][/\ \A err \in RawErrors :
             ApiThrows(err)
                => /\ error' = Some(GenericErrorMessage)
                   /\ isLoading' = FALSE
                   /\ generatedPost' = None
                   /\ history' = history
                   /\ storage' = storage
       /\ \A text \in {None, Some("")} :
             ApiReturns(text)
                => /\ error' = Some(EmptyResponseMessage)
                   /\ isLoading' = FALSE
                   /\ generatedPost' = None
                   /\ history' = history
                   /\ storage' = storage
       /\ error' \notin {Some(err) : err \in RawErrors}
       /\ history' # history
             => \E text \in ResponseTexts :
                   text # None /\ text[1] # "" /\ ApiReturns(text)]_vars

\* C4 witness: after a successful run a call threw: the generic message is
\* shown and the one item is still there.
C4_Witness ==
    /\ error = Some(GenericErrorMessage)
    /\ ~isLoading
    /\ Len(history) = 1
    /\ generatedPost = None

(***************************************************************************)
(* Claims about the dirty state (SpecDraft).                               *)
(***************************************************************************)
settingsEdit ==
    \/ \E f \in DOMAIN FieldInputs : \E v \in FieldInputs[f] : EditField(f, v)
    \/ addSource
    \/ \E i \in {0, 1} : removeSource(i)

\* C5: right after handleSaveSettings and right after handleResetSettings
\* the draft equals the committed settings and areSettingsDirty is false; and
\* whenever the draft equals the committed settings areSettingsDirty is false.
C5_CommitDiscardClean ==
    /\ [](settings = savedSettings => ~areSettingsDirty)
    /\ [][(handleSaveSettings \/ handleResetSettings)
             => (settings' = savedSettings' /\ ~areSettingsDirty')]_vars

\* C5 witness: a committed, non-default state was edited and the edit discarded.
C5_Witness ==
    /\ lastOp = <<"discard", "">>
    /\ prevOp = <<"edit", "">>
    /\ savedSettings # initialSettings
    /\ settings = savedSettings

\* C6 as claimed: from every state, Clean or Dirty, an edit that changes a
\* value of the draft leaves areSettingsDirty true.
C6_AsClaimed ==
    [][(settingsEdit /\ settings' # settings) => areSettingsDirty']_vars

\* C6 amended: an edit that changes a value of the draft leaves
\* areSettingsDirty true exactly when the new draft differs from the committed
\* settings; it always does when the edit starts from a Clean state.
C6_EditDirtyIffDiffers ==
    [][(settingsEdit /\ settings' # settings)
          => /\ areSettingsDirty' <=> (settings' # savedSettings')
             /\ ~areSettingsDirty => areSettingsDirty']_vars

\* C6 witness: the first edit after a commit changed a field.
C6_Witness ==
    /\ lastOp = <<"edit", "">>
    /\ prevOp = <<"commit", "">>
    /\ savedSettings # initialSettings
    /\ areSettingsDirty

\* C10: handleResetSettings called right after handleSaveSettings changes
\* neither the committed settings nor the draft.
C10_DiscardAfterCommit ==
    [][(lastOp = <<"commit", "">> /\ handleResetSettings)
          => (savedSettings' = savedSettings /\ settings' = settings)]_vars

\* C10 witness: a non-default draft was committed and then discard was called.
C10_Witness ==
    /\ lastOp = <<"discard", "">>
    /\ prevOp = <<"commit", "">>
    /\ savedSettings # initialSettings

\* C12 as claimed: in every reachable state the draft's and the committed
\* settings' postsPerDay is an integer from 1 to 50.
C12_PostsPerDayInRange ==
    /\ settings.postsPerDay \in 1..50
    /\ savedSettings.postsPerDay \in 1..50

\* C12 witness: a postsPerDay above the input's max was typed and committed.
C12_Witness ==
    /\ lastOp = <<"commit", "">>
    /\ prevOp = <<"edit", "">>
    /\ savedSettings.postsPerDay = 51
    /\ storage[SettingsKey] = Some(JSONStringify(savedSettings))

(***************************************************************************)
(* Claims about the draft's lists (SpecLists).                             *)
(***************************************************************************)

\* C7: after any sequence of addSource and removeSource calls the draft's
\* source list holds no URL twice; an accepted addSource appends its URL at
\* the end, an in-range removeSource takes out exactly the entry at its index
\* and keeps the others in their order, and a call whose precondition fails
\* (empty or already present URL, index out of range) leaves the list as it was.
C7_SourcesUniqueInOrder ==
    /\ [](NoDuplicates(settings.sources))
    /\ [][LET s == settings.sources
           t == settings.sources'
       IN  /\ addSource =>
                 IF sourceInput # "" /\ sourceInput \notin Range(s)
                 THEN Len(t) = Len(s) + 1 /\ t[Len(t)] = sourceInput
                      /\ \A j \in 1..Len(s) : t[j] = s[j]
                 ELSE t = s
           /\ \A i \in RemoveIndices :
                 removeSource(i) =>
                     IF 0 <= i /\ i < Len(s)
                     THEN Len(t) = Len(s) - 1
                          /\ \A j \in 1..Len(t) : t[j] = s[IF j <= i THEN j ELSE j + 1]
                     ELSE t = s]_vars

\* C7 witness: a URL was added, another added after it, the first removed
\* and added again: it now stands last.
C7_Witness ==
    /\ settings.sources = <<UrlChoices[2], UrlChoices[1]>>
    /\ lastOp = <<"addSource", UrlChoices[1]>>
    /\ prevOp = <<"removeSource", "">>

\* C8: after any sequence of addScheduleTime (and removeScheduleTime) calls
\* the draft's scheduleTimes are in strictly ascending code-unit order, hence
\* sorted and without duplicates.
C8_ScheduleTimesSorted ==
    \A i, j \in 1..Len(settings.scheduleTimes) :
        i < j => StringLess(settings.scheduleTimes[i], settings.scheduleTimes[j])

\* C8 witness: a time earlier than the default one was added after a later one.
C8_Witness ==
    /\ settings.scheduleTimes = <<HHMM(8, 30), HHMM(9, 0), HHMM(12, 0)>>
    /\ lastOp = <<"addScheduleTime", "">>
    /\ prevOp = <<"addScheduleTime", "">>

\* C9: addSource called with the URL the previous operation, also an
\* addSource, was called with changes neither the draft nor dirty.
C9_AddSourceIdempotent ==
    [][(addSource /\ lastOp = <<"addSource", sourceInput>>)
          => (settings' = settings /\ areSettingsDirty' = areSettingsDirty)]_vars

\* C9 witness: the same URL was added twice in succession and is listed once.
C9_Witness ==
    /\ lastOp = <<"addSource", UrlChoices[1]>>
    /\ prevOp = <<"addSource", UrlChoices[1]>>
    /\ settings.sources = <<UrlChoices[1]>>

(***************************************************************************)
(* Claims about a whole session (SpecSession).                             *)
(***************************************************************************)
\* the operations of the settings view other than the commit
draftOperation ==
    \/ \E v \in PostsPerDayInputs : EditField("postsPerDay", v)
    \/ \E v \in {UrlChoices[1], ""} : setSourceInput(v)
    \/ addSource
    \/ removeSource(0)
    \/ addScheduleTime
    \/ removeScheduleTime(0)
    \/ handleResetSettings

\* C11: the committed settings and the store's settings entry change only in
\* a handleSaveSettings step: every edit, addSource, removeSource,
\* addScheduleTime, removeScheduleTime and discard leaves both as they were.
\* While writes succeed the committed settings are what the store's entry
\* holds.  A handleGeneratePost step reads the committed settings, not the
\* draft: it shows the no-sources message exactly when the committed sources
\* are empty, and the call it starts holds the committed settings and a
\* source drawn from them.
C11_CommittedChangesOnlyInCommit ==
    /\ [](~storageFails
            => savedSettings = storedValue(storage, SettingsKey, initialSettings))
    /\ [][/\ (savedSettings' # savedSettings
                 \/ storage'[SettingsKey] # storage[SettingsKey])
              => handleSaveSettings
          /\ draftOperation
              => (/\ savedSettings' = savedSettings
                  /\ storage'[SettingsKey] = storage[SettingsKey])
          /\ handleGeneratePost(MaxRuns)
              => (/\ (error' = Some(NoSourcesMessage)) <=> (savedSettings.sources = <<>>)
                  /\ (pending' # pending)
                        => (/\ pending'[Len(pending')].savedSettings = savedSettings
                            /\ pending'[Len(pending')].randomSource
                                  \in Range(savedSettings.sources)))]_vars

\* C11 witness: after a commit that was written to the store the draft's
\* source was removed, its times and its postsPerDay changed, and a run
\* started from the committed source.
C11_Witness ==
    /\ isLoading
    /\ pending # <<>>
    /\ pending[1].savedSettings = savedSettings
    /\ pending[1].randomSource = UrlChoices[1]
    /\ storage[SettingsKey] = Some(JSONStringify(savedSettings))
    /\ settings.sources = <<>>
    /\ settings.scheduleTimes # savedSettings.scheduleTimes
    /\ settings.postsPerDay # savedSettings.postsPerDay

\* C13: a store whose texts do not parse is read as the defaults, with no
\* error shown.  In a session whose writes throw, a handleSaveSettings step
\* still ends with the committed settings equal to the draft and dirty false,
\* and a run whose call returns a non-empty text still ends with that post
\* shown, no error, no loading indicator and the new item first in the
\* in-memory history; neither step changes the error shown or the store.
C13_StorageFaultsSwallowed ==
    /\ (/\ storage[SettingsKey] = Some(Garbage)
            => (savedSettings = initialSettings /\ settings = initialSettings)
        /\ storage[HistoryKey] = Some(Garbage) => history = <<>>
        /\ error = None)
    /\ [][/\ (handleSaveSettings /\ storageFails)
              => (/\ savedSettings' = settings
                  /\ settings' = savedSettings'
                  /\ ~areSettingsDirty'
                  /\ error' = error
                  /\ storage' = storage)
          /\ \A text \in {Some("Hello")} :
              (ApiReturns(text) /\ storageFails)
              => (/\ generatedPost' # None
                  /\ generatedPost'[1].text = text[1]
                  /\ error' = None
                  /\ isLoading' = FALSE
                  /\ Len(history') = Len(history) + 1
                  /\ history'[1].text = text[1]
                  /\ history'[1].source = generatedPost'[1].source
                  /\ storage' = storage)]_vars

\* C13 witness: a session that read a damaged store and whose writes throw
\* committed a source and generated a post from it.
C13_Witness ==
    /\ storageFails
    /\ storage = Corrupted
    /\ savedSettings.sources = <<UrlChoices[1]>>
    /\ ~areSettingsDirty
    /\ generatedPost # None
    /\ error = None
    /\ ~isLoading
    /\ Len(history) = 1

C14_InProgressIsLeft ==
    /\ isLoading ~> ~isLoading
    /\ [](isLoading <=> pending # <<>>)
    /\ [][/\ callSettles => (isLoading' = FALSE /\ pending' = <<>>)
          /\ Len(pending') > Len(pending)
              => (handleGeneratePost(MaxRuns) /\ Len(pending') = Len(pending) + 1)]_vars

\* C14 witness: after a run that built an item, a second run's call returned
\* no text and the indicator is cleared.
C14_Witness ==
    /\ ~isLoading
    /\ pending = <<>>
    /\ error = Some(EmptyResponseMessage)
    /\ Len(created) = 1

\* C16: in every reachable state at most one call is outstanding; while one
\* is, the indicator is set, the trigger is disabled and the history is still
\* the one the run captured, so a handleGeneratePost step starts only when
\* no call is outstanding; and every item built in this session is still in
\* the history, newest first: no run's prepend replaced another run's item.
C16_OneOutstandingCall ==
    /\ [](Len(pending) <= 1)
    /\ [](pending # <<>>
            => (isLoading /\ disabledWhileLoading /\ pending[1].history = history))
    /\ [](\A i \in 1..Len(created) : i <= Len(history) /\ history[i] = created[i])
    /\ [][handleGeneratePost(MaxRuns) => pending = <<>>]_vars

\* C16 witness: two runs, one after the other, each built an item with a
\* different text, and both items are in the history of a first session.
C16_Witness ==
    /\ ~isLoading
    /\ pending = <<>>
    /\ Len(created) = 2
    /\ Len(history) = 2
    /\ history = created
    /\ history[1].text # history[2].text

====
